---- MODULE Spec2Model ----
(***************************************************************************)
(* State-machine model of hnvlib/mnist.py: the manual PyTorch pipeline     *)
(* (train / test / predict / run_pytorch) and the PyTorch Lightning        *)
(* pipeline (NeuralNetworkModule / run_pytorch_lightning).                 *)
(*                                                                         *)
(* Tensors are abstracted to small integers: an image is one intensity     *)
(* value, a parameter tensor is one value modulo ParamMod, the logits are  *)
(* a deterministic function of the parameters and the image.  Rational     *)
(* numbers (mean loss, accuracy) are pairs <<numerator, denominator>>.     *)
(***************************************************************************)
EXTENDS Integers, Sequences, FiniteSets, TLC

\* ---------------------------------------------------------------- bounds
MaxData == 3        \* largest dataset size explored
MaxBatch == 2       \* largest batch_size explored
MaxEpochs == 2      \* largest epochs explored
MaxSeed == 1        \* dataset / initialisation seeds are 0..MaxSeed
MaxPixel == 2       \* abstract image intensities are 0..MaxPixel
ParamMod == 3       \* abstract parameter values are 0..ParamMod-1
LogitMod == 11      \* abstract logits are 0..LogitMod-1

\* ------------------------------------------------------ program constants
NumClasses == 10          \* nn.Linear(512, 10), Accuracy(num_classes=10)
NumSanityValSteps == 2    \* Trainer(...): num_sanity_val_steps default

VARIABLES
    entry,              \* which callable was entered
    batch_size, epochs, \* arguments of the entry point
    training_data, test_data,
    train_dataloader, test_dataloader,
    model,              \* [params, grad, training]
    optimizer,          \* [buf]: SGD momentum buffers
    t,                  \* epoch index of the running epoch
    pc,                 \* position in the program
    batches, batch,     \* running loader iteration: its batches, enumerate index
    pred, loss,         \* locals of train / training_step / validation_step
    size, num_batches, test_loss, correct,   \* locals of test
    files,              \* files written so far: name -> serialized content
    predicted,          \* class printed by predict, -1 before
    metric,             \* torchmetrics Accuracy state [correct, total]
    logged,             \* last values given to self.log
    stage,              \* Lightning trainer stage: "sanity" or "fit"
    log,                \* history: operations performed so far
    atCall,             \* history: model and optimizer when test() was entered
    atSave,             \* history: parameters of the model when it was saved
    valSeen             \* history: batches given to validation_step this validation run

vars == << entry, batch_size, epochs, training_data, test_data, train_dataloader,
           test_dataloader, model, optimizer, t, pc, batches, batch, pred, loss,
           size, num_batches, test_loss, correct, files, predicted, metric,
           logged, stage, log, atCall, atSave, valSeen >>

\* ------------------------------------------------------------- arithmetic
Min(a, b) == IF a < b THEN a ELSE b

CeilDiv(a, b) == (a + b - 1) \div b

RECURSIVE SumSeq(_)
SumSeq(s) == IF s = << >> THEN 0 ELSE Head(s) + SumSeq(Tail(s))

\* ------------------------------------------------------------------ data
\* A sample is an image (abstract intensity x) with its label y.
MkData(n, s) ==
    [i \in 1..n |-> [x |-> (s + i) % (MaxPixel + 1),
                     y |-> (3 * s + 7 * i) % NumClasses]]

DataSets(lo) == { MkData(n, s) : n \in lo..MaxData, s \in 0..MaxSeed }

\* ----------------------------------------------------------------- model
\* Keys of NeuralNetwork().state_dict(), in order.
ParamNames ==
    << <<"linear_relu_stack", "0", "weight">>, <<"linear_relu_stack", "0", "bias">>,
       <<"linear_relu_stack", "2", "weight">>, <<"linear_relu_stack", "2", "bias">>,
       <<"linear_relu_stack", "4", "weight">>, <<"linear_relu_stack", "4", "bias">> >>

ParamKeys == { ParamNames[i] : i \in 1..Len(ParamNames) }

KeyIndex(k) == CHOOSE i \in 1..Len(ParamNames) : ParamNames[i] = k

\* Random initialisation of the layers, one draw per seed.
InitParams == { [k \in ParamKeys |-> (s + KeyIndex(k)) % ParamMod] : s \in 0..MaxSeed }

ZeroTensors == [k \in ParamKeys |-> 0]

\* NeuralNetwork(): fresh parameters, no gradients, training mode.
NeuralNetwork(p) == [params |-> p, grad |-> ZeroTensors, training |-> TRUE]

\* forward: flatten, then the linear/ReLU stack; NumClasses scores per image.
Forward(p, x) ==
    LET w == SumSeq([i \in 1..Len(ParamNames) |-> i * p[ParamNames[i]]])
    IN  [c \in 0..(NumClasses - 1) |-> ((x + w + 1) * (c + 1) + c) % LogitMod]

\* Tensor.argmax: the index of the first maximal value, counted from 0.
ArgMax(scores) ==
    CHOOSE c \in DOMAIN scores :
        /\ \A d \in DOMAIN scores : scores[d] <= scores[c]
        /\ \A d \in DOMAIN scores : d < c => scores[d] < scores[c]

\* nn.CrossEntropyLoss on one sample: log-sum-exp of the scores minus the
\* score of the true class, abstracted to max(scores) - scores[y].
SampleLoss(scores, y) == scores[ArgMax(scores)] - scores[y]

\* The samples of a batch (a sequence of dataset indices).
BatchX(data, b) == [i \in 1..Len(b) |-> data[b[i]].x]
BatchY(data, b) == [i \in 1..Len(b) |-> data[b[i]].y]

\* model(X): one score vector per image of the batch.
ForwardBatch(p, X) == [i \in 1..Len(X) |-> Forward(p, X[i])]

\* loss_fn(pred, y): mean over the batch, as <<sum, batch length>>.
CrossEntropyLoss(pr, y) ==
    << SumSeq([i \in 1..Len(pr) |-> SampleLoss(pr[i], y[i])]), Len(pr) >>

\* (pred.argmax(1) == y).sum(): number of correct top-1 predictions.
NumCorrect(pr, y) ==
    SumSeq([i \in 1..Len(pr) |-> IF ArgMax(pr[i]) = y[i] THEN 1 ELSE 0])

\* loss.backward(): the gradient of the loss, accumulated into .grad.
Backward(m, l) ==
    [m EXCEPT !.grad = [k \in ParamKeys |-> m.grad[k] + ((l[1] * KeyIndex(k)) % ParamMod)]]

\* optimizer.zero_grad()
ZeroGrad(m) == [m EXCEPT !.grad = ZeroTensors]

\* optimizer.step() of SGD with momentum: buf <- momentum*buf + grad,
\* p <- p - lr*buf.
SgdBuf(o, m) == [k \in ParamKeys |-> (o.buf[k] + m.grad[k]) % ParamMod]
SgdParams(o, m) ==
    [k \in ParamKeys |-> (m.params[k] + ParamMod - SgdBuf(o, m)[k]) % ParamMod]

\* ------------------------------------------------------------ DataLoader
\* DataLoader(dataset, batch_size=batch_size, num_workers=...): shuffle and
\* drop_last keep their defaults.
DataLoader(dataset, bs) ==
    [dataset |-> dataset, batch_size |-> bs, shuffle |-> FALSE, drop_last |-> FALSE]

Identity(n) == [i \in 1..n |-> i]

Perms(n) == { f \in [1..n -> 1..n] : \A i, j \in 1..n : f[i] = f[j] => i = j }

\* The index orders the loader's sampler may produce for one iteration:
\* SequentialSampler unless shuffle, RandomSampler otherwise.
SamplerOrders(dl) ==
    IF dl.shuffle THEN Perms(Len(dl.dataset)) ELSE { Identity(Len(dl.dataset)) }

\* len(dataloader)
LoaderLen(dl) ==
    IF dl.drop_last THEN Len(dl.dataset) \div dl.batch_size
    ELSE CeilDiv(Len(dl.dataset), dl.batch_size)

\* The batches of one iteration over the loader in sampler order `order`.
BatchesOf(dl, order) ==
    [b \in 1..LoaderLen(dl) |->
        SubSeq(order, (b - 1) * dl.batch_size + 1,
               Min(b * dl.batch_size, Len(dl.dataset)))]

\* ------------------------------------------------------------- persistence
\* torch.save of a state dict: the (key, tensor) entries in order.
Serialize(prefix, p) ==
    [i \in 1..Len(ParamNames) |-> [key |-> prefix \o ParamNames[i], value |-> p[ParamNames[i]]]]

\* torch.load: the mapping held by the file.
Deserialize(content) ==
    [k \in { content[i].key : i \in 1..Len(content) } |->
        content[CHOOSE i \in 1..Len(content) : content[i].key = k].value]

\* Mutant of LoadStateDict: the loaded state is not copied into the model.
LoadStateDictSkipped(m, state) == m

\* model.load_state_dict(state): every parameter takes the loaded tensor.
LoadStateDict(m, state) == [m EXCEPT !.params = [k \in ParamKeys |-> state[k]]]

\* ------------------------------------------------------------- rationals
RatAdd(a, b) == << a[1] * b[2] + b[1] * a[2], a[2] * b[2] >>

Zero == << 0, 1 >>

\* -------------------------------------------------------------- history
Event(op) == [op |-> op, epoch |-> t, batch |-> batch]

\* ------------------------------------------------------------ run_pytorch
\* Variables left alone by groups of actions.
args == << entry, batch_size, epochs, training_data, test_data,
           train_dataloader, test_dataloader >>
lightning == << metric, logged, stage, valSeen >>
testLocals == << size, num_batches, test_loss, correct >>

\* State after lines 128-150 of run_pytorch.
InitPytorch ==
    /\ entry = "run_pytorch"
    /\ batch_size \in 1..MaxBatch
    /\ epochs \in 1..MaxEpochs
    /\ training_data \in DataSets(1)
    /\ test_data \in DataSets(1)
    /\ train_dataloader = DataLoader(training_data, batch_size)
    /\ test_dataloader = DataLoader(test_data, batch_size)
    /\ \E p \in InitParams : model = NeuralNetwork(p)
    /\ optimizer = [buf |-> ZeroTensors]
    /\ t = 0
    /\ pc = "start"
    /\ batches = << >> /\ batch = 0
    /\ pred = << >> /\ loss = Zero
    /\ size = 0 /\ num_batches = 0 /\ test_loss = Zero /\ correct = Zero
    /\ files = << >>
    /\ predicted = -1
    /\ metric = [correct |-> 0, total |-> 0]
    /\ logged = [train_loss |-> Zero, val_loss |-> Zero, val_acc |-> Zero]
    /\ stage = "none"
    /\ log = << >>
    /\ atCall = [model |-> model, optimizer |-> optimizer]
    /\ atSave = ZeroTensors
    /\ valSeen = << >>

\* Mutant of EpochLoop: the loop runs one epoch too many.
EpochLoopOneMore ==
    /\ entry = "run_pytorch"
    /\ pc \in {"start", "test_returned"}
    /\ LET e == IF pc = "start" THEN 0 ELSE t + 1
       IN  /\ t' = e
           /\ pc' = IF e <= epochs THEN "train_call" ELSE "save"
    /\ UNCHANGED << args, model, optimizer, batches, batch, pred, loss, testLocals,
                    files, predicted, lightning, log, atCall, atSave >>

\* for t in range(epochs): the loop head, entered from the start and after
\* every test() return.
EpochLoop ==
    /\ entry = "run_pytorch"
    /\ pc \in {"start", "test_returned"}
    /\ LET e == IF pc = "start" THEN 0 ELSE t + 1
       IN  /\ t' = e
           /\ pc' = IF e < epochs THEN "train_call" ELSE "save"
    /\ UNCHANGED << args, model, optimizer, batches, batch, pred, loss, testLocals,
                    files, predicted, lightning, log, atCall, atSave >>

\* Mutant of TrainBegin: model.train() is not called.
TrainBeginNoModeSwitch ==
    /\ pc = "train_call"
    /\ size' = Len(train_dataloader.dataset)
    /\ \E order \in SamplerOrders(train_dataloader) :
           batches' = BatchesOf(train_dataloader, order)
    /\ batch' = 0
    /\ pc' = IF LoaderLen(train_dataloader) = 0 THEN "train_returned" ELSE "train_forward"
    /\ log' = Append(log, [op |-> "train", epoch |-> t, batch |-> 0])
    /\ UNCHANGED << args, model, optimizer, t, pred, loss, num_batches, test_loss, correct,
                    files, predicted, lightning, atCall, atSave >>

\* train(): size, model.train(), and the start of the iteration.
TrainBegin ==
    /\ pc = "train_call"
    /\ size' = Len(train_dataloader.dataset)
    /\ model' = [model EXCEPT !.training = TRUE]
    /\ \E order \in SamplerOrders(train_dataloader) :
           batches' = BatchesOf(train_dataloader, order)
    /\ batch' = 0
    /\ pc' = IF LoaderLen(train_dataloader) = 0 THEN "train_returned" ELSE "train_forward"
    /\ log' = Append(log, [op |-> "train", epoch |-> t, batch |-> 0])
    /\ UNCHANGED << args, optimizer, t, pred, loss, num_batches, test_loss, correct,
                    files, predicted, lightning, atCall, atSave >>

\* pred = model(X)
TrainForward ==
    /\ pc = "train_forward"
    /\ pred' = ForwardBatch(model.params, BatchX(train_dataloader.dataset, batches[batch + 1]))
    /\ pc' = "train_loss"
    /\ log' = Append(log, Event("forward"))
    /\ UNCHANGED << args, model, optimizer, t, batches, batch, loss, testLocals,
                    files, predicted, lightning, atCall, atSave >>

\* loss = loss_fn(pred, y)
TrainLoss ==
    /\ pc = "train_loss"
    /\ loss' = CrossEntropyLoss(pred, BatchY(train_dataloader.dataset, batches[batch + 1]))
    /\ pc' = "train_zero_grad"
    /\ log' = Append(log, Event("loss"))
    /\ UNCHANGED << args, model, optimizer, t, batches, batch, pred, testLocals,
                    files, predicted, lightning, atCall, atSave >>

\* optimizer.zero_grad()
TrainZeroGrad ==
    /\ pc = "train_zero_grad"
    /\ model' = ZeroGrad(model)
    /\ pc' = "train_backward"
    /\ log' = Append(log, Event("zero_grad"))
    /\ UNCHANGED << args, optimizer, t, batches, batch, pred, loss, testLocals,
                    files, predicted, lightning, atCall, atSave >>

\* Mutant of TrainBackward: optimizer.step() is left out of the loop body.
TrainBackwardNoStep ==
    /\ pc = "train_backward"
    /\ model' = Backward(model, loss)
    /\ batch' = batch + 1
    /\ pc' = IF batch + 1 < Len(batches) THEN "train_forward" ELSE "train_returned"
    /\ log' = Append(log, Event("backward"))
    /\ UNCHANGED << args, optimizer, t, batches, pred, loss, testLocals,
                    files, predicted, lightning, atCall, atSave >>

\* loss.backward()
TrainBackward ==
    /\ pc = "train_backward"
    /\ model' = Backward(model, loss)
    /\ pc' = "train_step"
    /\ log' = Append(log, Event("backward"))
    /\ UNCHANGED << args, optimizer, t, batches, batch, pred, loss, testLocals,
                    files, predicted, lightning, atCall, atSave >>

\* optimizer.step(), the progress line, and the advance to the next batch.
TrainStep ==
    /\ pc = "train_step"
    /\ optimizer' = [optimizer EXCEPT !.buf = SgdBuf(optimizer, model)]
    /\ model' = [model EXCEPT !.params = SgdParams(optimizer, model)]
    /\ batch' = batch + 1
    /\ pc' = IF batch + 1 < Len(batches) THEN "train_forward" ELSE "train_returned"
    /\ log' = Append(log, Event("step"))
    /\ UNCHANGED << args, t, batches, pred, loss, testLocals,
                    files, predicted, lightning, atCall, atSave >>

\* test(): size, num_batches, model.eval(), the accumulators, and the start
\* of the iteration under torch.no_grad().
TestBegin ==
    /\ pc \in {"train_returned", "test_call"}
    /\ size' = Len(test_dataloader.dataset)
    /\ num_batches' = LoaderLen(test_dataloader)
    /\ model' = [model EXCEPT !.training = FALSE]
    /\ test_loss' = Zero
    /\ correct' = Zero
    /\ \E order \in SamplerOrders(test_dataloader) :
           batches' = BatchesOf(test_dataloader, order)
    /\ batch' = 0
    /\ pc' = IF LoaderLen(test_dataloader) = 0 THEN "test_finish" ELSE "test_batch"
    /\ log' = Append(log, [op |-> "test", epoch |-> t, batch |-> 0])
    /\ atCall' = [model |-> model, optimizer |-> optimizer]
    /\ UNCHANGED << args, optimizer, t, pred, loss, files, predicted, lightning, atSave >>

\* Mutant of TestBatch: the evaluation loop also back-propagates and steps
\* the optimizer, as the training loop does.
TestBatchWithUpdate ==
    /\ pc = "test_batch"
    /\ LET X == BatchX(test_dataloader.dataset, batches[batch + 1])
           y == BatchY(test_dataloader.dataset, batches[batch + 1])
       IN  /\ pred' = ForwardBatch(model.params, X)
           /\ test_loss' = RatAdd(test_loss, CrossEntropyLoss(pred', y))
           /\ correct' = << correct[1] + NumCorrect(pred', y), 1 >>
           /\ LET g == Backward(ZeroGrad(model), CrossEntropyLoss(pred', y))
              IN  /\ optimizer' = [optimizer EXCEPT !.buf = SgdBuf(optimizer, g)]
                  /\ model' = [g EXCEPT !.params = SgdParams(optimizer, g)]
    /\ batch' = batch + 1
    /\ pc' = IF batch + 1 < Len(batches) THEN "test_batch" ELSE "test_finish"
    /\ log' = Append(log, Event("test_forward"))
    /\ UNCHANGED << args, t, batches, loss, size, num_batches,
                    files, predicted, lightning, atCall, atSave >>

\* One batch of test(): forward, loss and correct count accumulated.
TestBatch ==
    /\ pc = "test_batch"
    /\ LET X == BatchX(test_dataloader.dataset, batches[batch + 1])
           y == BatchY(test_dataloader.dataset, batches[batch + 1])
       IN  /\ pred' = ForwardBatch(model.params, X)
           /\ test_loss' = RatAdd(test_loss, CrossEntropyLoss(pred', y))
           /\ correct' = << correct[1] + NumCorrect(pred', y), 1 >>
    /\ batch' = batch + 1
    /\ pc' = IF batch + 1 < Len(batches) THEN "test_batch" ELSE "test_finish"
    /\ log' = Append(log, Event("test_forward"))
    /\ UNCHANGED << args, model, optimizer, t, batches, loss, size, num_batches,
                    files, predicted, lightning, atCall, atSave >>

\* test_loss /= num_batches; correct /= size; the summary line.  Dividing
\* by zero raises ZeroDivisionError.
TestFinish ==
    /\ pc = "test_finish"
    /\ IF num_batches = 0 \/ size = 0
       THEN /\ pc' = "error"
            /\ UNCHANGED << test_loss, correct >>
       ELSE /\ test_loss' = << test_loss[1], test_loss[2] * num_batches >>
            /\ correct' = << correct[1], size >>
            /\ pc' = "test_returned"
    /\ log' = Append(log, [op |-> "test_end", epoch |-> t, batch |-> 0])
    /\ UNCHANGED << args, model, optimizer, t, batches, batch, pred, loss, size,
                    num_batches, files, predicted, lightning, atCall, atSave >>

\* Mutant of Save: the file is written under another name than the one
\* that is loaded.
SaveOtherName ==
    /\ pc = "save"
    /\ files' = ("model.pt" :> Serialize(<< >>, model.params)) @@ files
    /\ atSave' = model.params
    /\ pc' = "saved"
    /\ log' = Append(log, [op |-> "save", epoch |-> t, batch |-> 0])
    /\ UNCHANGED << args, model, optimizer, t, batches, batch, pred, loss, testLocals,
                    predicted, lightning, atCall >>

\* torch.save(model.state_dict(), 'model.pth')
Save ==
    /\ pc = "save"
    /\ files' = ("model.pth" :> Serialize(<< >>, model.params)) @@ files
    /\ atSave' = model.params
    /\ pc' = "saved"
    /\ log' = Append(log, [op |-> "save", epoch |-> t, batch |-> 0])
    /\ UNCHANGED << args, model, optimizer, t, batches, batch, pred, loss, testLocals,
                    predicted, lightning, atCall >>

\* model = NeuralNetwork(); model.load_state_dict(torch.load('model.pth')).
\* A missing file (FileNotFoundError) or a state dict whose keys are not the
\* model's (RuntimeError) aborts the run.
Reload ==
    /\ pc = "saved"
    /\ IF "model.pth" \notin DOMAIN files
       THEN /\ pc' = "error"
            /\ UNCHANGED model
       ELSE LET state == Deserialize(files["model.pth"])
            IN  IF DOMAIN state # ParamKeys
                THEN /\ pc' = "error"
                     /\ UNCHANGED model
                ELSE /\ \E p \in InitParams : model' = LoadStateDict(NeuralNetwork(p), state)
                     /\ pc' = "predict_call"
    /\ UNCHANGED << args, optimizer, t, batches, batch, pred, loss, testLocals,
                    files, predicted, lightning, log, atCall, atSave >>

\* predict(): model.eval() and the first sample; test_data[0] of an empty
\* dataset raises IndexError.
PredictBegin ==
    /\ pc = "predict_call"
    /\ model' = [model EXCEPT !.training = FALSE]
    /\ pc' = IF Len(test_data) = 0 THEN "error" ELSE "predict_forward"
    /\ UNCHANGED << args, optimizer, t, batches, batch, pred, loss, testLocals,
                    files, predicted, lightning, log, atCall, atSave >>

\* predict(): pred = model(x) under torch.no_grad(); pred[0].argmax(0).
PredictForward ==
    /\ pc = "predict_forward"
    /\ pred' = ForwardBatch(model.params, << test_data[1].x >>)
    /\ predicted' = ArgMax(pred'[1])
    /\ pc' = "done"
    /\ log' = Append(log, [op |-> "predict", epoch |-> t, batch |-> 0])
    /\ UNCHANGED << args, model, optimizer, t, batches, batch, loss, testLocals,
                    files, lightning, atCall, atSave >>

NextPytorch ==
    \/ EpochLoop
    \/ TrainBegin \/ TrainForward \/ TrainLoss \/ TrainZeroGrad \/ TrainBackward \/ TrainStep
    \/ TestBegin \/ TestBatch \/ TestFinish
    \/ Save \/ Reload \/ PredictBegin \/ PredictForward

\* ------------------------------------------------- test() called on its own
\* test() entered with any loader (the empty dataset included) and any model
\* and optimizer state.
InitTest ==
    /\ entry = "test"
    /\ batch_size \in 1..MaxBatch
    /\ epochs = 0
    /\ training_data = << >>
    /\ test_data \in DataSets(0)
    /\ train_dataloader = DataLoader(training_data, batch_size)
    /\ test_dataloader = DataLoader(test_data, batch_size)
    /\ \E p \in InitParams, g \in {ZeroTensors} \cup InitParams, m \in BOOLEAN :
           model = [params |-> p, grad |-> g, training |-> m]
    /\ \E b \in {ZeroTensors} \cup InitParams : optimizer = [buf |-> b]
    /\ t = 0
    /\ pc = "test_call"
    /\ batches = << >> /\ batch = 0
    /\ pred = << >> /\ loss = Zero
    /\ size = 0 /\ num_batches = 0 /\ test_loss = Zero /\ correct = Zero
    /\ files = << >>
    /\ predicted = -1
    /\ metric = [correct |-> 0, total |-> 0]
    /\ logged = [train_loss |-> Zero, val_loss |-> Zero, val_acc |-> Zero]
    /\ stage = "none"
    /\ log = << >>
    /\ atCall = [model |-> model, optimizer |-> optimizer]
    /\ atSave = ZeroTensors
    /\ valSeen = << >>

NextTest == TestBegin \/ TestBatch \/ TestFinish

SpecTest == InitTest /\ [][NextTest]_vars

\* ------------------------------------------------------ NeuralNetworkModule
\* Accuracy(num_classes=10): running counts of correct and seen predictions.
MetricEmpty == [correct |-> 0, total |-> 0]

\* metric.update(pred, y)
MetricUpdate(m, pr, y) ==
    [correct |-> m.correct + NumCorrect(pr, y), total |-> m.total + Len(y)]

\* metric.compute(): correct / total
MetricCompute(m) == << m.correct, m.total >>

\* metric.reset()
MetricReset(m) == MetricEmpty

\* Keys of NeuralNetworkModule().state_dict(): the network is self.model.
ModulePrefix == << "model" >>

\* load_state_dict of the module: every parameter of self.model takes the
\* tensor stored under its prefixed key.
LoadModuleStateDict(m, state) ==
    [m EXCEPT !.params = [k \in ParamKeys |-> state[ModulePrefix \o k]]]

\* The validation batches the trainer runs: NumSanityValSteps of them in
\* the sanity check, all of them after a training epoch.
ValBatches(st, dl, order) ==
    LET all == BatchesOf(dl, order)
    IN  IF st = "sanity" THEN SubSeq(all, 1, Min(NumSanityValSteps, Len(all))) ELSE all

\* State after lines 250-268 of run_pytorch_lightning.
InitLightning ==
    /\ entry = "run_pytorch_lightning"
    /\ batch_size \in 1..MaxBatch
    /\ epochs \in 1..MaxEpochs
    /\ training_data \in DataSets(1)
    /\ test_data \in DataSets(1)
    /\ train_dataloader = DataLoader(training_data, batch_size)
    /\ test_dataloader = DataLoader(test_data, batch_size)
    /\ \E p \in InitParams : model = NeuralNetwork(p)
    /\ optimizer = [buf |-> ZeroTensors]
    /\ t = 0
    /\ pc = "pl_start"
    /\ batches = << >> /\ batch = 0
    /\ pred = << >> /\ loss = Zero
    /\ size = 0 /\ num_batches = 0 /\ test_loss = Zero /\ correct = Zero
    /\ files = << >>
    /\ predicted = -1
    /\ metric = MetricEmpty
    /\ logged = [train_loss |-> Zero, val_loss |-> Zero, val_acc |-> Zero]
    /\ stage = "none"
    /\ log = << >>
    /\ atCall = [model |-> model, optimizer |-> optimizer]
    /\ atSave = ZeroTensors
    /\ valSeen = << >>

\* trainer.fit: configure_optimizers(), then the sanity check.
FitBegin ==
    /\ pc = "pl_start"
    /\ optimizer' = [buf |-> ZeroTensors]
    /\ stage' = "sanity"
    /\ pc' = "pl_val_begin"
    /\ UNCHANGED << args, model, t, batches, batch, pred, loss, testLocals, files,
                    predicted, metric, logged, valSeen, log, atCall, atSave >>

\* The trainer starts a validation run: evaluation mode, the validation loader.
ValBegin ==
    /\ pc = "pl_val_begin"
    /\ model' = [model EXCEPT !.training = FALSE]
    /\ \E order \in SamplerOrders(test_dataloader) :
           batches' = ValBatches(stage, test_dataloader, order)
    /\ batch' = 0
    /\ valSeen' = << >>
    /\ pc' = "pl_validation_step"
    /\ log' = Append(log, [op |-> "pl_val", epoch |-> t, batch |-> 0])
    /\ UNCHANGED << args, optimizer, t, pred, loss, testLocals, files, predicted,
                    metric, logged, stage, atCall, atSave >>

\* validation_step(batch, batch_idx), then the trainer's advance.
ValidationStep ==
    /\ pc = "pl_validation_step"
    /\ LET X == BatchX(test_dataloader.dataset, batches[batch + 1])
           y == BatchY(test_dataloader.dataset, batches[batch + 1])
       IN  /\ pred' = ForwardBatch(model.params, X)
           /\ loss' = CrossEntropyLoss(pred', y)
           /\ metric' = MetricUpdate(metric, pred', y)
           /\ logged' = [logged EXCEPT !.val_loss = loss']
    /\ valSeen' = Append(valSeen, batches[batch + 1])
    /\ batch' = batch + 1
    /\ pc' = IF batch + 1 < Len(batches) THEN "pl_validation_step"
             ELSE "pl_validation_epoch_end"
    /\ log' = Append(log, Event("validation_step"))
    /\ UNCHANGED << args, model, optimizer, t, batches, testLocals, files, predicted,
                    stage, atCall, atSave >>

\* Mutant of ValidationEpochEnd: the metric is not reset.
ValidationEpochEndNoReset ==
    /\ pc = "pl_validation_epoch_end"
    /\ logged' = [logged EXCEPT !.val_acc = MetricCompute(metric)]
    /\ pc' = "pl_val_done"
    /\ log' = Append(log, Event("validation_epoch_end"))
    /\ UNCHANGED << args, model, optimizer, t, batches, batch, pred, loss, testLocals,
                    files, predicted, metric, stage, valSeen, atCall, atSave >>

\* validation_epoch_end(outputs)
ValidationEpochEnd ==
    /\ pc = "pl_validation_epoch_end"
    /\ logged' = [logged EXCEPT !.val_acc = MetricCompute(metric)]
    /\ metric' = MetricReset(metric)
    /\ pc' = "pl_val_done"
    /\ log' = Append(log, Event("validation_epoch_end"))
    /\ UNCHANGED << args, model, optimizer, t, batches, batch, pred, loss, testLocals,
                    files, predicted, stage, valSeen, atCall, atSave >>

\* The trainer after a validation run: the first epoch after the sanity
\* check, the next epoch, or the end of fit after max_epochs epochs.
EpochAdvance ==
    /\ pc = "pl_val_done"
    /\ LET e == IF stage = "sanity" THEN 0 ELSE t + 1
       IN  /\ t' = e
           /\ pc' = IF e < epochs THEN "pl_train_begin" ELSE "pl_fit_done"
    /\ stage' = "fit"
    /\ UNCHANGED << args, model, optimizer, batches, batch, pred, loss, testLocals,
                    files, predicted, metric, logged, valSeen, log, atCall, atSave >>

\* The trainer starts a training epoch: training mode, the training loader.
TrainEpochBegin ==
    /\ pc = "pl_train_begin"
    /\ model' = [model EXCEPT !.training = TRUE]
    /\ \E order \in SamplerOrders(train_dataloader) :
           batches' = BatchesOf(train_dataloader, order)
    /\ batch' = 0
    /\ pc' = "pl_training_step"
    /\ log' = Append(log, [op |-> "pl_train", epoch |-> t, batch |-> 0])
    /\ UNCHANGED << args, optimizer, t, pred, loss, testLocals, files, predicted,
                    lightning, atCall, atSave >>

\* Mutant of TrainingStep: the callback back-propagates and steps the
\* optimizer itself before returning the loss.
TrainingStepWithUpdate ==
    /\ pc = "pl_training_step"
    /\ LET X == BatchX(train_dataloader.dataset, batches[batch + 1])
           y == BatchY(train_dataloader.dataset, batches[batch + 1])
       IN  /\ pred' = ForwardBatch(model.params, X)
           /\ loss' = CrossEntropyLoss(pred', y)
           /\ logged' = [logged EXCEPT !.train_loss = loss']
           /\ LET g == Backward(ZeroGrad(model), loss')
              IN  /\ optimizer' = [optimizer EXCEPT !.buf = SgdBuf(optimizer, g)]
                  /\ model' = [g EXCEPT !.params = SgdParams(optimizer, g)]
    /\ pc' = "pl_optimize"
    /\ log' = Append(log, Event("training_step"))
    /\ UNCHANGED << args, t, batches, batch, testLocals, files,
                    predicted, metric, stage, valSeen, atCall, atSave >>

\* training_step(batch, batch_idx): the loss is logged and returned.
TrainingStep ==
    /\ pc = "pl_training_step"
    /\ LET X == BatchX(train_dataloader.dataset, batches[batch + 1])
           y == BatchY(train_dataloader.dataset, batches[batch + 1])
       IN  /\ pred' = ForwardBatch(model.params, X)
           /\ loss' = CrossEntropyLoss(pred', y)
           /\ logged' = [logged EXCEPT !.train_loss = loss']
    /\ pc' = "pl_optimize"
    /\ log' = Append(log, Event("training_step"))
    /\ UNCHANGED << args, model, optimizer, t, batches, batch, testLocals, files,
                    predicted, metric, stage, valSeen, atCall, atSave >>

\* The trainer's automatic optimization of the returned loss: zero_grad,
\* backward, optimizer step; then the next batch or the validation run.
TrainerOptimize ==
    /\ pc = "pl_optimize"
    /\ LET g == Backward(ZeroGrad(model), loss)
       IN  /\ optimizer' = [optimizer EXCEPT !.buf = SgdBuf(optimizer, g)]
           /\ model' = [g EXCEPT !.params = SgdParams(optimizer, g)]
    /\ batch' = batch + 1
    /\ pc' = IF batch + 1 < Len(batches) THEN "pl_training_step" ELSE "pl_val_begin"
    /\ log' = Append(log, Event("trainer_optimize"))
    /\ UNCHANGED << args, t, batches, pred, loss, testLocals, files, predicted,
                    lightning, atCall, atSave >>

\* trainer.save_checkpoint('model.ckpt')
SaveCheckpoint ==
    /\ pc = "pl_fit_done"
    /\ files' = ("model.ckpt" :> Serialize(ModulePrefix, model.params)) @@ files
    /\ atSave' = model.params
    /\ pc' = "pl_saved"
    /\ log' = Append(log, [op |-> "save", epoch |-> t, batch |-> 0])
    /\ UNCHANGED << args, model, optimizer, t, batches, batch, pred, loss, testLocals,
                    predicted, lightning, atCall >>

\* model = NeuralNetworkModule.load_from_checkpoint(checkpoint_path='model.ckpt'):
\* a fresh module, its state loaded from the checkpoint.
LoadFromCheckpoint ==
    /\ pc = "pl_saved"
    /\ IF "model.ckpt" \notin DOMAIN files
       THEN /\ pc' = "error"
            /\ UNCHANGED model
       ELSE LET state == Deserialize(files["model.ckpt"])
            IN  IF DOMAIN state # { ModulePrefix \o k : k \in ParamKeys }
                THEN /\ pc' = "error"
                     /\ UNCHANGED model
                ELSE /\ \E p \in InitParams :
                            model' = LoadModuleStateDict(NeuralNetwork(p), state)
                     /\ pc' = "predict_call"
    /\ metric' = MetricEmpty
    /\ UNCHANGED << args, optimizer, t, batches, batch, pred, loss, testLocals,
                    files, predicted, logged, stage, valSeen, log, atCall, atSave >>

NextLightning ==
    \/ FitBegin \/ ValBegin \/ ValidationStep \/ ValidationEpochEnd \/ EpochAdvance
    \/ TrainEpochBegin \/ TrainingStep \/ TrainerOptimize
    \/ SaveCheckpoint \/ LoadFromCheckpoint \/ PredictBegin \/ PredictForward

\* ------------------------------------------------------------ the program
\* The module's two entry points.
Init == InitPytorch \/ InitLightning

Next == NextPytorch \/ NextLightning

Spec == Init /\ [][Next]_vars

\* ================================================================ claims
IsPrefix(a, b) == Len(a) <= Len(b) /\ a = SubSeq(b, 1, Len(a))

TrainPcs == {"train_forward", "train_loss", "train_zero_grad", "train_backward", "train_step"}
TestPcs == {"test_batch", "test_finish"}
AfterSavePcs == {"saved", "predict_call", "predict_forward", "done"}

PhaseOrder == << "train", "test", "test_end" >>
IsPhase(e) == e.op \in {"train", "test", "test_end", "save"}
PhaseLog == SelectSeq(log, IsPhase)

\* The phase events of a complete run of n epochs: (train, test, end of
\* test) of epochs 0..n-1 in order, then the save.
ExpectedPhases(n) ==
    [i \in 1..(3 * n + 1) |->
        IF i = 3 * n + 1 THEN [op |-> "save", epoch |-> n, batch |-> 0]
        ELSE [op |-> PhaseOrder[((i - 1) % 3) + 1], epoch |-> (i - 1) \div 3, batch |-> 0]]

\* C1: in run_pytorch the phases occur as N repetitions of (train, test) and
\* then the save: the events so far are always a prefix of that sequence,
\* the program is inside train() / test() exactly between the matching
\* events, model.pth exists only once all 3N+1 events have happened, and a
\* finished run has performed all of them.
C1_PhaseOrder ==
    entry = "run_pytorch" =>
        /\ IsPrefix(PhaseLog, ExpectedPhases(epochs))
        /\ pc \in TrainPcs \cup {"train_returned"} =>
               /\ PhaseLog # << >>
               /\ PhaseLog[Len(PhaseLog)] = [op |-> "train", epoch |-> t, batch |-> 0]
        /\ pc \in TestPcs =>
               /\ PhaseLog # << >>
               /\ PhaseLog[Len(PhaseLog)] = [op |-> "test", epoch |-> t, batch |-> 0]
        /\ "model.pth" \in DOMAIN files <=> Len(PhaseLog) = 3 * epochs + 1
        /\ pc \in AfterSavePcs => PhaseLog = ExpectedPhases(epochs)

C1_Witness ==
    /\ entry = "run_pytorch" /\ pc = "done" /\ epochs = 2
    /\ "model.pth" \in DOMAIN files
    /\ Len(PhaseLog) = 7

StepOrder == << "forward", "loss", "zero_grad", "backward", "step" >>
IsTrainOp(e) == e.op \in {"forward", "loss", "zero_grad", "backward", "step"} /\ e.epoch = t
TrainLog == SelectSeq(log, IsTrainOp)

\* The operations of one train() call over n batches.
ExpectedTrainLog(e, n) ==
    [i \in 1..(5 * n) |->
        [op |-> StepOrder[((i - 1) % 5) + 1], epoch |-> e, batch |-> (i - 1) \div 5]]

StepsDone(p) ==
    CASE p = "train_forward" -> 0 [] p = "train_loss" -> 1 [] p = "train_zero_grad" -> 2
      [] p = "train_backward" -> 3 [] p = "train_step" -> 4

\* C6: train() takes the batches in loader order and performs forward,
\* loss, zero_grad, backward, step on each, one batch after the other; when
\* it returns it has applied exactly one optimizer step per batch, and so
\* at least one when the loader is not empty.
C6_TrainSteps ==
    /\ pc \in TrainPcs =>
        /\ batches = BatchesOf(train_dataloader, Identity(Len(train_dataloader.dataset)))
        /\ batch < Len(batches)
        /\ TrainLog = SubSeq(ExpectedTrainLog(t, Len(batches)), 1, 5 * batch + StepsDone(pc))
        /\ pc \notin {"train_forward"} =>
               pred = ForwardBatch(model.params,
                                   BatchX(train_dataloader.dataset, batches[batch + 1]))
    /\ pc = "train_returned" =>
        /\ TrainLog = ExpectedTrainLog(t, LoaderLen(train_dataloader))
        /\ batch = LoaderLen(train_dataloader)
        /\ Len(train_dataloader.dataset) > 0 =>
               \E i \in 1..Len(TrainLog) : TrainLog[i].op = "step"

C6_Witness ==
    /\ pc = "train_returned"
    /\ Len(batches) = 2 /\ Len(batches[2]) < Len(batches[1])
    /\ Len(TrainLog) = 10
    /\ t = 1

\* C10: every forward pass of train() runs in training mode, also in the
\* epochs after the first; every forward pass of test() and of predict()
\* runs in evaluation mode.
C10_ModeMatchesPhase ==
    /\ pc = "train_forward" => model.training
    /\ pc = "test_batch" => ~model.training
    /\ pc = "predict_forward" => ~model.training

C10_Witness ==
    /\ pc = "train_forward" /\ t = 1 /\ model.training
    /\ \E i \in 1..Len(log) : log[i].op = "test_end"

\* Steps of one epoch of run_pytorch: the loop head, the entry of train(),
\* five steps per training batch, the entry of test(), one step per test
\* batch, and the end of test().
EpochSteps == 4 + 5 * LoaderLen(train_dataloader) + LoaderLen(test_dataloader)

\* The number of steps run_pytorch has left; negative after an error.
Remaining ==
    LET later == (epochs - t - 1) * EpochSteps + 5
    IN  CASE pc = "start" -> epochs * EpochSteps + 5
          [] pc = "train_call" -> later + EpochSteps - 1
          [] pc \in TrainPcs -> later + EpochSteps - 2 - 5 * batch - StepsDone(pc)
          [] pc = "train_returned" -> later + 2 + LoaderLen(test_dataloader)
          [] pc = "test_batch" -> later + 1 + LoaderLen(test_dataloader) - batch
          [] pc = "test_finish" -> later + 1
          [] pc = "test_returned" -> later
          [] pc = "save" -> 4
          [] pc = "saved" -> 3
          [] pc = "predict_call" -> 2
          [] pc = "predict_forward" -> 1
          [] pc = "done" -> 0
          [] OTHER -> -1

\* C8: run_pytorch on non-empty datasets with positive batch_size and
\* epochs terminates without error: it never raises, it can always take a
\* step until it is done, every step brings it one step closer to the end,
\* and at the end model.pth is written and the predicted label is in [0, 9].
C8_Terminates ==
    /\ [](entry = "run_pytorch" =>
            /\ pc # "error"
            /\ Remaining >= 0
            /\ pc # "done" => ENABLED NextPytorch
            /\ pc = "done" =>
                   /\ "model.pth" \in DOMAIN files
                   /\ predicted \in 0..(NumClasses - 1))
    /\ [][entry = "run_pytorch" => Remaining' = Remaining - 1]_vars

C8_Witness ==
    /\ entry = "run_pytorch" /\ pc = "done"
    /\ "model.pth" \in DOMAIN files
    /\ predicted \in 0..(NumClasses - 1)
    /\ Len(test_data) >= 2 /\ epochs = 2

\* The class predict prints for the first test sample with parameters p.
PredictedClass(p) == ArgMax(Forward(p, test_data[1].x))

\* C4: after the reload, in both pipelines, the fresh model holds the
\* parameters the saved model had when it was saved, and predict prints
\* the class the saved model gives for the same sample.
C4_RoundTrip ==
    /\ pc \in {"predict_call", "predict_forward", "done"} =>
        /\ model.params = atSave
        /\ PredictedClass(model.params) = PredictedClass(atSave)
    /\ pc = "done" => predicted = PredictedClass(atSave)

C4_Witness ==
    /\ entry = "run_pytorch_lightning" /\ pc = "done"
    /\ atSave \notin InitParams
    /\ model.params = atSave
    /\ "model.ckpt" \in DOMAIN files

\* The correct and total counts of the batches in bs under parameters p.
CountsOf(p, data, bs) ==
    [correct |-> SumSeq([i \in 1..Len(bs) |->
                            NumCorrect(ForwardBatch(p, BatchX(data, bs[i])), BatchY(data, bs[i]))]),
     total |-> SumSeq([i \in 1..Len(bs) |-> Len(bs[i])])]

\* C3: the accuracy logged by validation_epoch_end is that of the
\* validation_step calls of the validation run it closes, and outside a
\* validation run the accumulator is empty.
C3_MetricPerEpoch ==
    entry = "run_pytorch_lightning" =>
        /\ pc \in {"pl_validation_step", "pl_validation_epoch_end"} =>
               metric = CountsOf(model.params, test_data, valSeen)
        /\ pc \notin {"pl_validation_step", "pl_validation_epoch_end"} =>
               metric = MetricEmpty
        /\ pc = "pl_val_done" =>
               logged.val_acc = MetricCompute(CountsOf(model.params, test_data, valSeen))

C3_Witness ==
    /\ entry = "run_pytorch_lightning" /\ pc = "pl_val_done"
    /\ stage = "fit" /\ t = 1
    /\ Len(valSeen) = 2
    /\ logged.val_acc[2] = Len(test_data)
    /\ metric = MetricEmpty

\* C9: training_step and validation_step leave the parameters, gradients
\* and optimizer state as they found them; in the Lightning pipeline the
\* parameters of the module being fitted change only in the trainer's
\* optimization step, which runs after training_step has returned.
C9_CallbacksDoNotUpdate ==
    [][/\ pc \in {"pl_training_step", "pl_validation_step"} =>
            /\ model' = model
            /\ optimizer' = optimizer
       /\ (entry = "run_pytorch_lightning" /\ pc # "pl_saved" /\ model'.params # model.params) =>
            /\ pc = "pl_optimize"
            /\ log # << >>
            /\ log[Len(log)].op = "training_step"]_vars

C9_Witness ==
    /\ pc = "pl_optimize" /\ t = 1 /\ batch = 1
    /\ loss[1] > 0
    /\ log[Len(log)].op = "training_step"

\* C5 as stated: after test() the model object and the optimizer are as
\* they were when test() was entered.
C5_PureRead ==
    pc = "test_returned" =>
        /\ model = atCall.model
        /\ optimizer = atCall.optimizer

\* C5 amended: test() leaves parameters, gradients and optimizer state as
\* they were at the call, and leaves the model in evaluation mode, whether
\* it returns or raises.
C5_OnlyModeChanges ==
    pc \in TestPcs \cup {"test_returned", "error"} =>
        /\ model.params = atCall.model.params
        /\ model.grad = atCall.model.grad
        /\ optimizer = atCall.optimizer
        /\ model.training = FALSE

C5_Witness ==
    /\ pc = "test_returned"
    /\ atCall.model.training
    /\ ~model.training
    /\ Len(batches) = 2
    /\ model.params = atCall.model.params

InUnit(r) == r[2] > 0 /\ 0 <= r[1] /\ r[1] <= r[2]
NonNegative(r) == r[2] > 0 /\ r[1] >= 0

\* C2: for every dataset, the empty one included, test() ends by producing
\* an accuracy in [0, 1] and a non-negative mean loss, and does not fail.
C2_MetricsInRange ==
    pc \in {"test_returned", "error"} =>
        /\ pc = "test_returned"
        /\ InUnit(correct)
        /\ NonNegative(test_loss)

\* C7: an iteration of the training loader over two or more samples may
\* come in more than one order, while the evaluation loader has one order.
C7_TrainShuffled ==
    /\ (pc \in {"train_forward", "pl_training_step"} /\ Len(train_dataloader.dataset) >= 2) =>
           Cardinality(SamplerOrders(train_dataloader)) > 1
    /\ pc \in {"test_batch", "pl_validation_step"} =>
           Cardinality(SamplerOrders(test_dataloader)) = 1

====
